---------------------------- MODULE Spec2Model ----------------------------
(***************************************************************************)
(* The connection/session lifecycle manager of src/main.py: the            *)
(* ConnectionManager registry, the resumption-token table, the session     *)
(* resolution of ADKManager.get_or_create_session and the WebSocket        *)
(* handler websocket_endpoint, one task per transport, interleaved at the  *)
(* await points of the single asyncio event loop.                          *)
(***************************************************************************)
EXTENDS Integers, Sequences, FiniteSets, TLC

\* ----------------------------------------------------------------- bounds
\* session ids the Session Store may allocate (create_session)
MaxSessions == 2
\* resumption tokens that may be issued
MaxTokens == 1
\* user turns received over all transports
MaxTurns == 2
\* events the agent runtime yields in one turn
MaxEvents == 1
\* clock ticks
MaxTime == 1
\* parts in the content of one event
MaxParts == 2
\* events of the turn whose events are followed part by part
MaxTurnEvents == 2

\* resume_token: Optional[str] = None
NoToken == 0
\* a session id made up by the client (the path parameter of /ws/{session_id}):
\* a string no create_session ever returns
ClientMadeId == 0
\* no value yet (a local that is not assigned)
Unset == 0
\* the token lifetime, 24 * 60 * 60 seconds, in clock ticks
TOKEN_TTL == 1

WebSockets == {"ws1", "ws2"}
Users == {"alice", "bob"}
\* the streaming_mode query parameter: the two values websocket_endpoint tests
\* for, and any other
StreamingModes == {"bidi", "sse", "none"}

VARIABLES
    sessions,               \* Session Store: the set of <<user_id, session_id>> rows
    next_session,           \* the next id create_session allocates
    tokens,                 \* table session_resumption_tokens: a set of rows
    next_token,             \* the next token create_resumption_token returns
    now,                    \* datetime.now()
    active_connections,     \* ConnectionManager.active_connections: connection_id -> websocket
    session_connections,    \* ConnectionManager.session_connections: session_id -> connection_id
    db_active_connections,  \* table active_connections (PRIMARY KEY session_id)
    next_connection,        \* the next connection id uuid4() gives connect
    open,                   \* websocket -> whether the client side is still open
    wire,                   \* websocket -> the sequence of wire messages written to it
    pc,                     \* websocket -> the await its websocket_endpoint task is suspended in
    session_id,             \* websocket_endpoint's local session_id
    user_id,                \* websocket_endpoint's local user_id
    resume_token,           \* websocket_endpoint's parameter resume_token
    streaming_mode,         \* websocket_endpoint's parameter streaming_mode
    actual_session_id,      \* websocket_endpoint's local actual_session_id
    connection_id,          \* websocket_endpoint's local connection_id
    pm_session,             \* process_message's local session.id
    turn,                   \* the turn the task is processing
    seq,                    \* events of the turn received so far
    sending,                \* the transport write a task is suspended in, or NoSend
    next_turn,              \* turns started so far, plus one
    final_response,         \* process_message's local final_response, as fragments
    function_calls_made,    \* process_message's local function_calls_made (names)
    redeemed                \* history: who presented which token while it was valid

vars == <<sessions, next_session, tokens, next_token, now, active_connections,
          session_connections, db_active_connections, next_connection, open,
          wire, pc, session_id, user_id, resume_token, streaming_mode,
          actual_session_id, connection_id, pm_session, turn, seq, sending,
          next_turn, final_response, function_calls_made, redeemed>>

store_vars == <<sessions, next_session>>
token_vars == <<tokens, next_token>>
registry_vars == <<active_connections, session_connections, db_active_connections>>
local_vars == <<session_id, user_id, resume_token, streaming_mode,
                actual_session_id, connection_id>>
turn_vars == <<pm_session, turn, seq, next_turn, final_response,
               function_calls_made>>

\* ------------------------------------------------------------ dictionaries
\* d[k] = v of a Python dict
DictSet(d, k, v) == [x \in (DOMAIN d) \cup {k} |-> IF x = k THEN v ELSE d[x]]
\* del d[k], guarded by `if k in d`
DictDel(d, k) == [x \in (DOMAIN d) \ {k} |-> d[x]]
EmptyDict == [x \in {} |-> Unset]


\* ----------------------------------------------------------- Session Store
\* session_service.get_session(app_name, user_id, session_id): the row or None
get_session(store, uid, sid) == <<uid, sid>> \in store

\* session_service.create_session(app_name, user_id, state): a row under a fresh
\* id; the session_id the caller was looking for is not passed on
create_session(store, uid, fresh) == store \cup {<<uid, fresh>>}

\* session_service.delete_session(app_name, user_id, session_id)
delete_session_row(store, uid, sid) == store \ {<<uid, sid>>}

\* ------------------------------------------------------- resumption tokens
\* Values as Python and sqlite3 see them: a float timestamp, a datetime object,
\* and the text a datetime becomes in a TIMESTAMP column.
Float(n) == [kind |-> "float", v |-> n]
Datetime(n) == [kind |-> "datetime", v |-> n]
Text(n) == [kind |-> "text", v |-> n]

\* datetime.fromtimestamp(x): a datetime for a number, TypeError for anything else
fromtimestamp_raises(x) == x.kind # "float"
fromtimestamp(x) == Datetime(x.v)

\* sqlite3's default adapter for a datetime parameter: its ISO text; the
\* connection is opened without detect_types, so a SELECT returns that text
sqlite_adapt(x) == IF x.kind = "datetime" THEN Text(x.v) ELSE x

\* the row create_resumption_token inserts
token_row(token, sid, uid, t) ==
    [token |-> token, session_id |-> sid, user_id |-> uid,
     expires_at |-> sqlite_adapt(fromtimestamp(Float(t + TOKEN_TTL)))]

\* DELETE FROM session_resumption_tokens WHERE token = ?
invalidate_resumption_token(tbl, token) == {r \in tbl : r.token # token}

Invalid(tbl, reason) ==
    [valid |-> FALSE, reason |-> reason, session_id |-> Unset, user_id |-> "",
     tokens |-> tbl]

\* validate_resumption_token: the result dict, and the table it leaves behind
validate_resumption_token(tbl, token, t) ==
    IF \E r \in tbl : r.token = token
    THEN LET row == CHOOSE r \in tbl : r.token = token
         IN  IF fromtimestamp_raises(row.expires_at)
             THEN Invalid(tbl, "error")            \* except Exception: reason str(e)
             ELSE IF fromtimestamp(row.expires_at).v > t
                  THEN [valid |-> TRUE, reason |-> "", session_id |-> row.session_id,
                        user_id |-> row.user_id, tokens |-> tbl]
                  ELSE Invalid(invalidate_resumption_token(tbl, token), "expired")
    ELSE Invalid(tbl, "not found")

\* ------------------------------------------------------- ConnectionManager
CM == [active_connections |-> active_connections,
       session_connections |-> session_connections,
       db |-> db_active_connections]

SetCM(cm) ==
    /\ active_connections' = cm.active_connections
    /\ session_connections' = cm.session_connections
    /\ db_active_connections' = cm.db

\* connect as it would be if a session already bound kept its binding
\* (session_connections.setdefault instead of the assignment)
connect_keeps_binding(cm, cid, websocket, sid, uid) ==
    [active_connections |-> DictSet(cm.active_connections, cid, websocket),
     session_connections |->
         IF sid \in DOMAIN cm.session_connections
         THEN cm.session_connections
         ELSE DictSet(cm.session_connections, sid, cid),
     db |-> {r \in cm.db : r.session_id # sid}
            \cup {[session_id |-> sid, connection_id |-> cid, user_id |-> uid]}]

\* ConnectionManager.connect, after websocket.accept() returned
connect(cm, cid, websocket, sid, uid) ==
    [active_connections |-> DictSet(cm.active_connections, cid, websocket),
     session_connections |-> DictSet(cm.session_connections, sid, cid),
     db |-> {r \in cm.db : r.session_id # sid}
            \cup {[session_id |-> sid, connection_id |-> cid, user_id |-> uid]}]

\* disconnect as it would be if it removed the table row only and left the
\* two dictionaries alone
disconnect_table_only(cm, cid, sid) ==
    [active_connections |-> cm.active_connections,
     session_connections |-> cm.session_connections,
     db |-> {r \in cm.db : r.session_id # sid}]

\* disconnect as it would be if it unbound every session, not only sid
disconnect_drops_every_binding(cm, cid, sid) ==
    [active_connections |-> DictDel(cm.active_connections, cid),
     session_connections |-> EmptyDict,
     db |-> {}]

\* disconnect as it would be if it removed the connection and the table row
\* and left session_connections alone
disconnect_keeps_session_binding(cm, cid, sid) ==
    [active_connections |-> DictDel(cm.active_connections, cid),
     session_connections |-> cm.session_connections,
     db |-> {r \in cm.db : r.session_id # sid}]

\* ConnectionManager.disconnect
disconnect(cm, cid, sid) ==
    [active_connections |-> DictDel(cm.active_connections, cid),
     session_connections |-> DictDel(cm.session_connections, sid),
     db |-> {r \in cm.db : r.session_id # sid}]

NoSend == [connection_id |-> Unset]

\* send_message as it would be if, for a session that is not bound, it fell
\* back on some connection that is open
send_lookup_falls_back(cm, sid) ==
    IF /\ sid \in DOMAIN cm.session_connections
       /\ cm.session_connections[sid] \in DOMAIN cm.active_connections
    THEN [connection_id |-> cm.session_connections[sid],
          websocket |-> cm.active_connections[cm.session_connections[sid]]]
    ELSE IF DOMAIN cm.active_connections # {}
         THEN LET c == CHOOSE c \in DOMAIN cm.active_connections : TRUE
              IN  [connection_id |-> c, websocket |-> cm.active_connections[c]]
         ELSE NoSend

\* ConnectionManager.send_message up to its await: the connection and the
\* websocket the two dictionaries give for session_id, or nothing
send_lookup(cm, sid) ==
    IF /\ sid \in DOMAIN cm.session_connections
       /\ cm.session_connections[sid] \in DOMAIN cm.active_connections
    THEN [connection_id |-> cm.session_connections[sid],
          websocket |-> cm.active_connections[cm.session_connections[sid]]]
    ELSE NoSend

\* WebSocketResponse: type, session_id and content; turn and seq say which
\* event of which turn the message was made for
WebSocketResponse(type, sid, t, n, content) ==
    [type |-> type, session_id |-> sid, turn |-> t, seq |-> n, content |-> content]

\* a wire message whose content plays no part; a content is a sequence of
\* text fragments
Msg(type, sid, t, n) == WebSocketResponse(type, sid, t, n, <<>>)


\* ---------------------------------------------------------------- initial
Init ==
    /\ sessions = {}
    /\ next_session = 1
    /\ tokens = {}
    /\ next_token = 1
    /\ now = 0
    /\ active_connections = EmptyDict
    /\ session_connections = EmptyDict
    /\ db_active_connections = {}
    /\ next_connection = 1
    /\ open = [w \in WebSockets |-> TRUE]
    /\ wire = [w \in WebSockets |-> <<>>]
    /\ pc = [w \in WebSockets |-> "start"]
    /\ session_id = [w \in WebSockets |-> Unset]
    /\ user_id = [w \in WebSockets |-> ""]
    /\ resume_token = [w \in WebSockets |-> NoToken]
    /\ streaming_mode = [w \in WebSockets |-> "bidi"]
    /\ actual_session_id = [w \in WebSockets |-> Unset]
    /\ connection_id = [w \in WebSockets |-> Unset]
    /\ pm_session = [w \in WebSockets |-> Unset]
    /\ turn = [w \in WebSockets |-> Unset]
    /\ seq = [w \in WebSockets |-> 0]
    /\ sending = [w \in WebSockets |-> NoSend]
    /\ next_turn = 1
    /\ final_response = [w \in WebSockets |-> <<>>]
    /\ function_calls_made = [w \in WebSockets |-> <<>>]
    /\ redeemed = {}

\* the session ids a client can name: one it made up, or one it was told
KnownIds == {ClientMadeId} \cup (1 .. (next_session - 1))
\* the tokens a client can present: those issued so far, and one it made up
ForgedToken == MaxTokens + 1
IssuedTokens == 1 .. (next_token - 1)
PresentableTokens == IssuedTokens \cup {ForgedToken}

\* a token the spec calls valid: in the table, and not yet expired
TokenValid(tbl, token, t) ==
    \E r \in tbl : r.token = token /\ r.expires_at.v > t

\* history: `by` presents `token` for validation; recorded when it is valid
Redeem(by, token) ==
    redeemed' =
        IF TokenValid(tokens, token, now)
        THEN redeemed \cup
               {[by |-> by, token |-> r.token, session_id |-> r.session_id,
                 user_id |-> r.user_id] : r \in {x \in tokens : x.token = token}}
        ELSE redeemed

\* --------------------------------------------------- get_or_create_session
\* get_or_create_session as it would be if it never returned the session it
\* looked up (the `return session` of the found branch missing)
get_or_create_session_always_creates(store, uid, sid) ==
    [found |-> FALSE, id |-> Unset]

\* The first half, up to the end of `await get_session`: the session found,
\* or nothing, and then the caller goes on to create_session.
get_or_create_session(store, uid, sid) ==
    IF get_session(store, uid, sid)
    THEN [found |-> TRUE, id |-> sid]
    ELSE [found |-> FALSE, id |-> Unset]

\* ------------------------------------------------------------ send_message
\* send_message(sid, msg) up to `await websocket.send_text`, on registry cm:
\* with no bound connection it returns at once and the task runs on to its next
\* await, `after`; otherwise send_text hands the frame to the transport (frames
\* leave a transport in the order of the send_text calls) and the task is
\* suspended until the write completes.
send_message(w, cm, sid, msg, after) ==
    LET target == send_lookup(cm, sid) IN
    IF target = NoSend
    THEN /\ pc' = [pc EXCEPT ![w] = after]
         /\ sending' = sending
         /\ wire' = wire
    ELSE /\ pc' = [pc EXCEPT ![w] = "send"]
         /\ sending' = [sending EXCEPT ![w] =
                [connection_id |-> target.connection_id,
                 websocket |-> target.websocket,
                 session_id |-> sid, msg |-> msg, after |-> after]]
         /\ wire' = IF open[target.websocket]
                    THEN [wire EXCEPT ![target.websocket] = Append(@, msg)]
                    ELSE wire

\* `await websocket.send_text` returns, or raises because the peer is gone by
\* now and the except branch disconnects what was looked up. The task then
\* runs on to its next await.
send_message_done(w) ==
    LET s == sending[w] IN
    /\ pc[w] = "send"
    /\ IF open[s.websocket]
       THEN UNCHANGED registry_vars
       ELSE SetCM(disconnect(CM, s.connection_id, s.session_id))
    /\ pc' = [pc EXCEPT ![w] = s.after]
    /\ sending' = [sending EXCEPT ![w] = NoSend]
    /\ UNCHANGED <<store_vars, token_vars, now, next_connection, open, wire,
                   local_vars, turn_vars, redeemed>>

\* ------------------------------------------------------ websocket_endpoint
\* A client opens /ws/{sid}?user_id=uid without a resume_token: the task runs
\* to `await get_session` in get_or_create_session.
websocket_endpoint(w, sid, uid) ==
    /\ pc[w] = "start"
    /\ session_id' = [session_id EXCEPT ![w] = sid]
    /\ user_id' = [user_id EXCEPT ![w] = uid]
    /\ pc' = [pc EXCEPT ![w] = "get_session"]
    /\ UNCHANGED <<store_vars, token_vars, now, registry_vars, next_connection,
                   open, wire, resume_token, streaming_mode, actual_session_id,
                   connection_id,
                   turn_vars, sending, redeemed>>

\* websocket_endpoint as it would be if the invalid-token branch sent its error
\* and then fell through to the session resolution (no close, no return)
websocket_endpoint_resume_falls_through(w, sid, uid, token) ==
    LET validation_result == validate_resumption_token(tokens, token, now) IN
    /\ pc[w] = "start"
    /\ resume_token' = [resume_token EXCEPT ![w] = token]
    /\ Redeem(w, token)
    /\ session_id' = [session_id EXCEPT ![w] = sid]
    /\ user_id' = [user_id EXCEPT ![w] = uid]
    /\ tokens' = validation_result.tokens
    /\ wire' = [wire EXCEPT ![w] = Append(@, Msg("error", sid, Unset, 0))]
    /\ pc' = [pc EXCEPT ![w] = "get_session"]
    /\ UNCHANGED <<store_vars, next_token, now, registry_vars, next_connection,
                   open, streaming_mode, actual_session_id, connection_id,
                   turn_vars, sending>>

\* A client opens /ws/{sid}?user_id=uid&streaming_mode=mode
websocket_endpoint_streaming(w, sid, uid, mode) ==
    /\ pc[w] = "start"
    /\ session_id' = [session_id EXCEPT ![w] = sid]
    /\ user_id' = [user_id EXCEPT ![w] = uid]
    /\ streaming_mode' = [streaming_mode EXCEPT ![w] = mode]
    /\ pc' = [pc EXCEPT ![w] = "get_session"]
    /\ UNCHANGED <<store_vars, token_vars, now, registry_vars, next_connection,
                   open, wire, resume_token, actual_session_id, connection_id,
                   turn_vars, sending, redeemed>>

\* A client opens /ws/{sid}?user_id=uid&resume_token=token. Validation and
\* invalidation run on sqlite3 without suspending, so they are one step; on an
\* invalid token the handler accepts, sends the error and closes.
websocket_endpoint_resume(w, sid, uid, token) ==
    LET validation_result == validate_resumption_token(tokens, token, now) IN
    /\ pc[w] = "start"
    /\ resume_token' = [resume_token EXCEPT ![w] = token]
    /\ Redeem(w, token)
    /\ IF validation_result.valid
       THEN /\ session_id' = [session_id EXCEPT ![w] = validation_result.session_id]
            /\ user_id' = [user_id EXCEPT ![w] = validation_result.user_id]
            /\ tokens' = invalidate_resumption_token(validation_result.tokens, token)
            /\ pc' = [pc EXCEPT ![w] = "get_session"]
            /\ wire' = wire
       ELSE /\ session_id' = [session_id EXCEPT ![w] = sid]
            /\ user_id' = [user_id EXCEPT ![w] = uid]
            /\ tokens' = validation_result.tokens
            /\ wire' = [wire EXCEPT ![w] = Append(@, Msg("error", sid, Unset, 0))]
            /\ pc' = [pc EXCEPT ![w] = "rejected"]
    /\ UNCHANGED <<store_vars, next_token, now, registry_vars, next_connection,
                   open, streaming_mode, actual_session_id, connection_id,
                   turn_vars, sending>>

\* `await get_session` returns in get_or_create_session(user_id, session_id):
\* with a session the task runs to `await websocket.accept()` in connect,
\* without one to `await create_session`.
ws_get_session(w) ==
    LET session == get_or_create_session(sessions, user_id[w], session_id[w]) IN
    /\ pc[w] = "get_session"
    /\ IF session.found
       THEN /\ actual_session_id' = [actual_session_id EXCEPT ![w] = session.id]
            /\ pc' = [pc EXCEPT ![w] = "accept"]
       ELSE /\ actual_session_id' = actual_session_id
            /\ pc' = [pc EXCEPT ![w] = "create_session"]
    /\ UNCHANGED <<store_vars, token_vars, now, registry_vars, next_connection,
                   open, wire, session_id, user_id, resume_token, streaming_mode,
                   connection_id,
                   turn_vars, sending, redeemed>>

\* `await get_session` raises in get_or_create_session (the Session Store
\* cannot be read): the inner `except Exception` logs a warning and the code
\* goes on to create_session, in the handler and in process_message alike
get_session_raises(w) ==
    /\ pc[w] \in {"get_session", "pm_get_session"}
    /\ pc' = [pc EXCEPT ![w] = IF pc[w] = "get_session"
                               THEN "create_session"
                               ELSE "pm_create_session"]
    /\ UNCHANGED <<store_vars, token_vars, now, registry_vars, next_connection,
                   open, wire, local_vars, turn_vars, sending, redeemed>>

\* `await create_session` returns the new session
ws_create_session(w) ==
    /\ pc[w] = "create_session"
    /\ next_session <= MaxSessions
    /\ sessions' = create_session(sessions, user_id[w], next_session)
    /\ next_session' = next_session + 1
    /\ actual_session_id' = [actual_session_id EXCEPT ![w] = next_session]
    /\ pc' = [pc EXCEPT ![w] = "accept"]
    /\ UNCHANGED <<token_vars, now, registry_vars, next_connection, open, wire,
                   session_id, user_id, resume_token, streaming_mode,
                   connection_id, turn_vars,
                   sending, redeemed>>

\* websocket_endpoint as it would be if it went from connect straight to its
\* receive loop (the session_info send missing)
ws_connect_no_session_info(w) ==
    LET cm == connect(CM, next_connection, w, actual_session_id[w], user_id[w]) IN
    /\ pc[w] = "accept"
    /\ SetCM(cm)
    /\ connection_id' = [connection_id EXCEPT ![w] = next_connection]
    /\ next_connection' = next_connection + 1
    /\ pc' = [pc EXCEPT ![w] = "receive"]
    /\ UNCHANGED <<store_vars, token_vars, now, open, wire, session_id, user_id,
                   resume_token, streaming_mode, actual_session_id, turn_vars,
                   sending, redeemed>>

\* `await websocket.accept()` returns: connect binds, and the handler sends
\* session_info (the history of a resumed session follows only after a valid
\* resume_token, which validate_resumption_token never reports)
ws_connect(w) ==
    LET cm == connect(CM, next_connection, w, actual_session_id[w], user_id[w]) IN
    /\ pc[w] = "accept"
    /\ SetCM(cm)
    /\ connection_id' = [connection_id EXCEPT ![w] = next_connection]
    /\ next_connection' = next_connection + 1
    /\ send_message(w, cm, actual_session_id[w],
                    Msg("session_info", actual_session_id[w], Unset, 0), "receive")
    /\ UNCHANGED <<store_vars, token_vars, now, open, session_id, user_id,
                   resume_token, streaming_mode, actual_session_id, turn_vars,
                   redeemed>>

\* `await websocket.receive()` returns a text frame with a non-empty message:
\* the task runs to `await get_session` in process_message, unless
\* streaming_mode is "sse", whose branch is `pass`: back to receive
ws_receive(w) ==
    /\ pc[w] = "receive"
    /\ open[w]
    /\ next_turn <= MaxTurns
    /\ turn' = [turn EXCEPT ![w] = next_turn]
    /\ next_turn' = next_turn + 1
    /\ seq' = [seq EXCEPT ![w] = 0]
    /\ pc' = IF streaming_mode[w] = "sse"
             THEN pc
             ELSE [pc EXCEPT ![w] = "pm_get_session"]
    /\ UNCHANGED <<store_vars, token_vars, now, registry_vars, next_connection,
                   open, wire, local_vars, pm_session, final_response,
                   function_calls_made, sending, redeemed>>

\* The peer is gone: `await websocket.receive()` returns the disconnect
\* message, which has neither "text" nor "bytes", and the next receive() raises
\* RuntimeError (receive() itself never raises WebSocketDisconnect). The
\* `except Exception` branch sends an error message to actual_session_id.
ws_disconnect(w) ==
    /\ pc[w] = "receive"
    /\ ~open[w]
    /\ send_message(w, CM, actual_session_id[w],
                    Msg("error", actual_session_id[w], Unset, 0), "finally")
    /\ UNCHANGED <<store_vars, token_vars, now, registry_vars, next_connection,
                   open, local_vars, turn_vars, redeemed>>

\* finally: connection_manager.disconnect(connection_id, actual_session_id)
ws_finally(w) ==
    /\ pc[w] = "finally"
    /\ SetCM(disconnect(CM, connection_id[w], actual_session_id[w]))
    /\ pc' = [pc EXCEPT ![w] = "closed"]
    /\ UNCHANGED <<store_vars, token_vars, now, next_connection, open, wire,
                   local_vars, turn_vars, sending, redeemed>>

\* the client closes its side of an accepted transport
client_close(w) ==
    /\ connection_id[w] # Unset
    /\ pc[w] # "closed"
    /\ open[w]
    /\ open' = [open EXCEPT ![w] = FALSE]
    /\ UNCHANGED <<store_vars, token_vars, now, registry_vars, next_connection,
                   wire, pc, local_vars, turn_vars, sending, redeemed>>

\* ------------------------------------------------------------------ events
\* Python's None
None == "None"
\* the tools an agent may call
Tools == {"search"}
\* part.text: empty, plain, and one carrying the transfer marker in capitals
Texts == {"", "Hello", "Transfer to billing"}
\* part.inline_data.mime_type
MimeTypes == {"audio/pcm", "image/png"}
\* event.author
Authors == {"orchestrator"}

\* types.Part: each attribute is None or a value
Parts ==
    [text : Texts \cup {None},
     function_call : Tools \cup {None},
     function_response : Tools \cup {None},
     inline_data : MimeTypes \cup {None}]

\* an event of runner.run_async: its author and the parts of its content
Events ==
    [author : Authors \cup {None},
     parts : UNION {[1 .. n -> Parts] : n \in 0 .. MaxParts}]

\* str.lower()
lower(text) ==
    CASE text = "Transfer to billing" -> "transfer to billing"
      [] text = "Hello" -> "hello"
      [] OTHER -> text

\* `needle in text`, for the needles and texts of the model
contains(needle, text) ==
    \/ needle = "transfer to" /\ text = "transfer to billing"
    \/ needle = text

\* mime_type.startswith('audio/')
startswith_audio(mime_type) == mime_type = "audio/pcm"

\* the branch of the loop of extract_agent_and_tool_info a part takes: the
\* event type it gives, or None when the loop goes on to the next part
part_event_type(part) ==
    IF part.function_call # None THEN "tool_call"
    ELSE IF part.function_response # None THEN "tool_response"
    ELSE IF part.text # None /\ part.text # ""
    THEN IF \/ contains("transferring to", lower(part.text))
            \/ contains("transfer to", lower(part.text))
         THEN "agent_transfer"
         ELSE "agent_response"
    ELSE None

\* extract_agent_and_tool_info(event)["event_type"]: the loop breaks at the
\* first part that gives a type; an event with an author and a content that
\* got none is an agent_response
extract_agent_and_tool_info(event) ==
    LET typed == {i \in DOMAIN event.parts : part_event_type(event.parts[i]) # None} IN
    IF typed # {}
    THEN part_event_type(event.parts[CHOOSE i \in typed : \A j \in typed : i <= j])
    ELSE IF event.author # None THEN "agent_response" ELSE None

\* audio_data of process_message: some part has inline audio data
audio_data(event) ==
    \E i \in DOMAIN event.parts :
        /\ event.parts[i].inline_data # None
        /\ startswith_audio(event.parts[i].inline_data)

\* the type of the WebSocketResponse process_message sends for an event, or
\* None when it sends none
wire_type(event) ==
    IF audio_data(event) THEN "audio" ELSE extract_agent_and_tool_info(event)

\* f"\n[Used tool: {func_call.name}]", as its two fragments
UsedTool(name) ==
    <<"\n", CASE name = "search" -> "[Used tool: search]">>

\* final_response += text
concat(response, text) == IF text = "" THEN response ELSE Append(response, text)

\* the loop over event.content.parts that collects final_response
RECURSIVE collect_text(_, _)
collect_text(response, parts) ==
    IF parts = <<>> THEN response
    ELSE LET part == Head(parts) IN
         collect_text(IF part.text # None THEN concat(response, part.text)
                      ELSE IF part.function_call # None
                      THEN response \o UsedTool(part.function_call)
                      ELSE response,
                      Tail(parts))

\* the same loop, for function_calls_made
RECURSIVE collect_calls(_, _)
collect_calls(calls, parts) ==
    IF parts = <<>> THEN calls
    ELSE LET part == Head(parts) IN
         collect_calls(IF part.text = None /\ part.function_call # None
                       THEN Append(calls, part.function_call)
                       ELSE calls,
                       Tail(parts))

\* the fragments str.strip() removes at both ends
Whitespace == {"", "\n"}

\* str.strip()
RECURSIVE strip(_)
strip(response) ==
    IF response = <<>> THEN response
    ELSE IF Head(response) \in Whitespace THEN strip(Tail(response))
    ELSE IF response[Len(response)] \in Whitespace
    THEN strip(SubSeq(response, 1, Len(response) - 1))
    ELSE response

\* ", ".join(names)
RECURSIVE join(_)
join(names) ==
    IF names = <<>> THEN <<>>
    ELSE IF Len(names) = 1 THEN names
    ELSE <<Head(names), ", ">> \o join(Tail(names))

\* the reply when final_response is empty and no tool was recorded
Fallback ==
    <<"I processed your request. Please let me know if you need anything else.">>

\* the reply when final_response is empty and tools were recorded
ToolSummary(calls) ==
    <<"I used ", ToString(Len(calls)), " tool(s) to process your request: ">>
        \o join(calls)

\* what process_message returns after its loop: the stripped final_response,
\* or one of the two replies for an empty one
final_reply(response, calls) ==
    LET stripped == strip(response) IN
    IF stripped = <<>> /\ calls # <<>> THEN ToolSummary(calls)
    ELSE IF stripped = <<>> THEN Fallback
    ELSE stripped

\* --------------------------------------------------------- process_message
\* `await get_session` returns in get_or_create_session(user_id, session_id):
\* with a session, process_message sends agent_thinking
pm_get_session(w) ==
    LET session == get_or_create_session(sessions, user_id[w], actual_session_id[w]) IN
    /\ pc[w] = "pm_get_session"
    /\ IF session.found
       THEN /\ pm_session' = [pm_session EXCEPT ![w] = session.id]
            /\ send_message(w, CM, session.id,
                            Msg("agent_thinking", session.id, turn[w], 0), "run_async")
            /\ final_response' = [final_response EXCEPT ![w] = <<>>]
            /\ function_calls_made' = [function_calls_made EXCEPT ![w] = <<>>]
       ELSE /\ pm_session' = pm_session
            /\ pc' = [pc EXCEPT ![w] = "pm_create_session"]
            /\ sending' = sending
            /\ wire' = wire
            /\ UNCHANGED <<final_response, function_calls_made>>
    /\ UNCHANGED <<store_vars, token_vars, now, registry_vars, next_connection,
                   open, local_vars, turn, seq, next_turn, redeemed>>

\* `await create_session` returns the new session; agent_thinking is sent
pm_create_session(w) ==
    /\ pc[w] = "pm_create_session"
    /\ next_session <= MaxSessions
    /\ sessions' = create_session(sessions, user_id[w], next_session)
    /\ next_session' = next_session + 1
    /\ pm_session' = [pm_session EXCEPT ![w] = next_session]
    /\ send_message(w, CM, next_session,
                    Msg("agent_thinking", next_session, turn[w], 0), "run_async")
    /\ final_response' = [final_response EXCEPT ![w] = <<>>]
    /\ function_calls_made' = [function_calls_made EXCEPT ![w] = <<>>]
    /\ UNCHANGED <<token_vars, now, registry_vars, next_connection, open,
                   local_vars, turn, seq, next_turn, redeemed>>

\* one iteration of `async for event in self.runner.run_async(...)`: the
\* event is classified, its wire message, if it has one, is sent to
\* session.id, and its parts are collected into final_response
run_async_yields(w, event) ==
    LET type == wire_type(event) IN
    /\ pc[w] = "run_async"
    /\ seq' = [seq EXCEPT ![w] = seq[w] + 1]
    /\ final_response' = [final_response EXCEPT ![w] = collect_text(@, event.parts)]
    /\ function_calls_made' =
           [function_calls_made EXCEPT ![w] = collect_calls(@, event.parts)]
    /\ IF type = None
       THEN /\ pc' = pc
            /\ sending' = sending
            /\ wire' = wire
       ELSE send_message(w, CM, pm_session[w],
                         Msg(type, pm_session[w], turn[w], seq[w] + 1),
                         "run_async")
    /\ UNCHANGED <<store_vars, token_vars, now, registry_vars, next_connection,
                   open, local_vars, pm_session, turn, next_turn, redeemed>>

\* an event of one text part, written by an agent
TextEvent ==
    [author |-> "orchestrator",
     parts |-> <<[text |-> "Hello", function_call |-> None,
                  function_response |-> None, inline_data |-> None]>>]

\* the next event of the turn arrives and is a text reply
run_async_event(w) ==
    /\ seq[w] < MaxEvents
    /\ run_async_yields(w, TextEvent)

\* the next event of the turn arrives, whatever its parts are
run_async_any_event(w, event) ==
    /\ seq[w] < MaxTurnEvents
    /\ run_async_yields(w, event)

\* the event stream ends: process_message returns the final response, which
\* the handler sends as a message to actual_session_id
run_async_end(w) ==
    /\ pc[w] = "run_async"
    /\ send_message(w, CM, actual_session_id[w],
                    WebSocketResponse("message", actual_session_id[w], turn[w], 0,
                                      final_reply(final_response[w],
                                                  function_calls_made[w])),
                    "receive")
    /\ UNCHANGED <<store_vars, token_vars, now, registry_vars, next_connection,
                   open, local_vars, turn_vars, redeemed>>

\* the reply process_message returns from its `except Exception`
ErrorReply == <<"I apologize, but I encountered an error">>

\* process_message as it would be without its `except Exception`: the
\* exception of runner.run_async ends the handler, whose finally disconnects
run_async_raises_propagates(w) ==
    /\ pc[w] = "run_async"
    /\ SetCM(disconnect(CM, connection_id[w], actual_session_id[w]))
    /\ pc' = [pc EXCEPT ![w] = "closed"]
    /\ UNCHANGED <<store_vars, token_vars, now, next_connection, open, wire,
                   local_vars, turn_vars, sending, redeemed>>

\* runner.run_async raises, at its start or between two events: the except of
\* process_message returns ErrorReply, which the handler sends as it sends
\* every reply
run_async_raises(w) ==
    /\ pc[w] = "run_async"
    /\ send_message(w, CM, actual_session_id[w],
                    WebSocketResponse("message", actual_session_id[w], turn[w],
                                      0, ErrorReply),
                    "receive")
    /\ UNCHANGED <<store_vars, token_vars, now, registry_vars, next_connection,
                   open, local_vars, turn_vars, redeemed>>

\* the agent runtime yields no further event and does not end its stream:
\* `async for` stays suspended, and nothing in process_message or in the
\* handler bounds the wait (StreamingConfig.timeout is read nowhere)
run_async_stall(w) ==
    /\ pc[w] = "run_async"
    /\ pc' = [pc EXCEPT ![w] = "stalled"]
    /\ UNCHANGED <<store_vars, token_vars, now, registry_vars, next_connection,
                   open, wire, local_vars, turn_vars, sending, redeemed>>

\* ---------------------------------------------------------- HTTP endpoints
\* POST /sessions/{user_id}/{session_id}/resume: create_resumption_token
create_session_resumption_token(uid, sid) ==
    /\ next_token <= MaxTokens
    /\ tokens' = tokens \cup {token_row(next_token, sid, uid, now)}
    /\ next_token' = next_token + 1
    /\ UNCHANGED <<store_vars, now, registry_vars, next_connection, open, wire,
                   pc, local_vars, turn_vars, sending, redeemed>>

\* POST /sessions/resume?token=...: validates, never invalidates
resume_session(token) ==
    LET validation_result == validate_resumption_token(tokens, token, now) IN
    /\ tokens' = validation_result.tokens
    /\ Redeem("http", token)
    /\ UNCHANGED <<store_vars, next_token, now, registry_vars, next_connection,
                   open, wire, pc, local_vars, turn_vars, sending>>

\* DELETE /sessions/{user_id}/{session_id}
delete_session(uid, sid) ==
    /\ get_session(sessions, uid, sid)
    /\ sessions' = delete_session_row(sessions, uid, sid)
    /\ UNCHANGED <<next_session, token_vars, now, registry_vars, next_connection,
                   open, wire, pc, local_vars, turn_vars, sending, redeemed>>

\* time passes
Tick ==
    /\ now < MaxTime
    /\ now' = now + 1
    /\ UNCHANGED <<store_vars, token_vars, registry_vars, next_connection, open,
                   wire, pc, local_vars, turn_vars, sending, redeemed>>

\* The WebSocket lifecycle: connects without a token, turns, disconnects, and
\* session deletion.
Next ==
    \/ \E w \in WebSockets, sid \in KnownIds, uid \in Users :
          websocket_endpoint(w, sid, uid)
    \/ \E w \in WebSockets : ws_get_session(w)
    \/ \E w \in WebSockets : ws_create_session(w)
    \/ \E w \in WebSockets : ws_connect(w)
    \/ \E w \in WebSockets : send_message_done(w)
    \/ \E w \in WebSockets : ws_receive(w)
    \/ \E w \in WebSockets : ws_disconnect(w)
    \/ \E w \in WebSockets : ws_finally(w)
    \/ \E w \in WebSockets : client_close(w)
    \/ \E w \in WebSockets : pm_get_session(w)
    \/ \E w \in WebSockets : pm_create_session(w)
    \/ \E w \in WebSockets : run_async_event(w)
    \/ \E w \in WebSockets : run_async_end(w)
    \/ \E r \in sessions : delete_session(r[1], r[2])

Spec == Init /\ [][Next]_vars

\* The resumption tokens: issue, redeem, expiry, and the connects that present
\* one, beside plain connects up to the first receive.
NextTokens ==
    \/ \E w \in WebSockets, sid \in KnownIds, uid \in Users :
          websocket_endpoint(w, sid, uid)
    \/ \E w \in WebSockets, sid \in KnownIds, uid \in Users, token \in PresentableTokens :
          websocket_endpoint_resume(w, sid, uid, token)
    \/ \E w \in WebSockets : ws_get_session(w)
    \/ \E w \in WebSockets : ws_create_session(w)
    \/ \E w \in WebSockets : ws_connect(w)
    \/ \E w \in WebSockets : send_message_done(w)
    \/ \E r \in sessions : create_session_resumption_token(r[1], r[2])
    \/ \E token \in PresentableTokens : resume_session(token)
    \/ \E r \in sessions : delete_session(r[1], r[2])
    \/ Tick

SpecTokens == Init /\ [][NextTokens]_vars

\* The turns of connected handlers under every streaming_mode, with an agent
\* runtime that may raise or stall.
NextTurns ==
    \/ \E w \in WebSockets, sid \in KnownIds, uid \in Users, mode \in StreamingModes :
          websocket_endpoint_streaming(w, sid, uid, mode)
    \/ \E w \in WebSockets : ws_get_session(w)
    \/ \E w \in WebSockets : ws_create_session(w)
    \/ \E w \in WebSockets : ws_connect(w)
    \/ \E w \in WebSockets : send_message_done(w)
    \/ \E w \in WebSockets : ws_receive(w)
    \/ \E w \in WebSockets : pm_get_session(w)
    \/ \E w \in WebSockets : run_async_event(w)
    \/ \E w \in WebSockets : run_async_end(w)
    \/ \E w \in WebSockets : run_async_raises(w)
    \/ \E w \in WebSockets : run_async_stall(w)

SpecTurns == Init /\ [][NextTurns]_vars

\* what the event loop does for the task of w once it can run: a task that is
\* ready is resumed, and the agent runtime goes on, raises or stalls
TaskStep(w) ==
    \/ ws_get_session(w)
    \/ ws_create_session(w)
    \/ ws_connect(w)
    \/ send_message_done(w)
    \/ pm_get_session(w)
    \/ run_async_event(w)
    \/ run_async_end(w)
    \/ run_async_raises(w)
    \/ run_async_stall(w)

SpecTurnsFair == SpecTurns /\ \A w \in WebSockets : WF_vars(TaskStep(w))

\* One transport and its first turn, with the events of the turn followed part
\* by part and with a Session Store whose lookups may fail.
DetailSockets == {"ws1"}

NextTurnDetail ==
    \/ \E w \in DetailSockets, sid \in KnownIds, uid \in Users :
          websocket_endpoint(w, sid, uid)
    \/ \E w \in WebSockets : ws_get_session(w)
    \/ \E w \in WebSockets : get_session_raises(w)
    \/ \E w \in WebSockets : ws_create_session(w)
    \/ \E w \in WebSockets : ws_connect(w)
    \/ \E w \in WebSockets : send_message_done(w)
    \/ \E w \in WebSockets : next_turn = 1 /\ ws_receive(w)
    \/ \E w \in WebSockets : pm_get_session(w)
    \/ \E w \in WebSockets : pm_create_session(w)
    \/ \E w \in WebSockets, event \in Events : run_async_any_event(w, event)
    \/ \E w \in WebSockets : run_async_end(w)

SpecTurnDetail == Init /\ [][NextTurnDetail]_vars


\* ------------------------------------------------------------------ claims
\* the websocket a connect has bound and whose handler has not disconnected
Live(w) == connection_id[w] # Unset /\ pc[w] # "closed"

\* C1: every session id has at most one connection bound to it (one entry in
\* session_connections, one row in table active_connections), and a connect
\* on a session id, bound already or not, leaves session_connections[S] equal
\* to the connection id it has just generated and returns.
C1_ConnectReplacesBinding ==
    [][\A w \in WebSockets :
          (pc[w] = "accept" /\ pc'[w] # "accept") =>
             /\ connection_id'[w] \notin DOMAIN active_connections
             /\ actual_session_id[w] \in DOMAIN session_connections'
             /\ session_connections'[actual_session_id[w]] = connection_id'[w]
             /\ active_connections'[connection_id'[w]] = w
             /\ \A r1, r2 \in db_active_connections' :
                   r1.session_id = r2.session_id => r1 = r2
             /\ \E r \in db_active_connections' :
                   /\ r.session_id = actual_session_id[w]
                   /\ r.connection_id = connection_id'[w]]_vars

\* C1's case: a second connect on a session id that is still bound to the
\* first connection has replaced the binding.
C1_Witness ==
    \E w1, w2 \in WebSockets :
        /\ w1 # w2 /\ Live(w1) /\ Live(w2)
        /\ actual_session_id[w1] = actual_session_id[w2]
        /\ connection_id[w1] < connection_id[w2]
        /\ connection_id[w1] \in DOMAIN active_connections
        /\ session_connections[actual_session_id[w2]] = connection_id[w2]

\* C2: once c2 has superseded c1 on session S, the superseded handler's
\* disconnect(c1, S) leaves S bound to c2: whenever the handler of the older
\* connection has closed while the newer connection's handler is running on an
\* open transport, S is still bound to the newer connection.
C2_SupersededUnbindRejected ==
    \A w1, w2 \in WebSockets :
        ( /\ pc[w1] = "closed" /\ Live(w2) /\ open[w2]
          /\ actual_session_id[w1] = actual_session_id[w2]
          /\ connection_id[w1] < connection_id[w2] )
        => /\ actual_session_id[w2] \in DOMAIN session_connections
           /\ session_connections[actual_session_id[w2]] = connection_id[w2]

\* C3: a resumption token is single use: once a valid token has been
\* presented for validation (by a WebSocket connect or by resume_session), every
\* later validation of it fails with reason "not found".
C3_TokenSingleUse ==
    \A g \in redeemed :
        validate_resumption_token(tokens, g.token, now).reason = "not found"

\* C9: a WebSocket connect that presents a valid resume_token bound to (S, U)
\* is not turned away; once connected, its transport is bound to S with user U
\* whatever its own parameters were, and its session_info carries S.
C9_ResumeBindsTokenSession ==
    \A w \in WebSockets : \A g \in redeemed :
        g.by = w =>
            /\ pc[w] # "rejected"
            /\ connection_id[w] # Unset =>
                  /\ actual_session_id[w] = g.session_id
                  /\ user_id[w] = g.user_id
            /\ \A i \in 1 .. Len(wire[w]) :
                  wire[w][i].type = "session_info" =>
                      wire[w][i].session_id = g.session_id

\* C10: a WebSocket connect whose resume_token does not validate (not in the
\* table, or expired) gets an error message and is closed; the Session Store,
\* session_connections, active_connections and table active_connections stay
\* as they were, and the handler neither resolves a session nor binds.
C10_InvalidTokenRejected ==
    [][\A w \in WebSockets :
          ( /\ pc[w] = "start" /\ pc'[w] # "start"
            /\ resume_token'[w] # NoToken
            /\ ~TokenValid(tokens, resume_token'[w], now) )
          => /\ pc'[w] = "rejected"
             /\ wire'[w] = Append(wire[w], Msg("error", session_id'[w], Unset, 0))
             /\ UNCHANGED <<sessions, next_session, registry_vars>>
             /\ actual_session_id'[w] = Unset
             /\ connection_id'[w] = Unset]_vars

\* C10's case: a connect with a token that is not in the table has been turned
\* away while the Session Store and the registry hold entries.
C10_Witness ==
    \E w \in WebSockets :
        /\ pc[w] = "rejected"
        /\ resume_token[w] = ForgedToken
        /\ Len(wire[w]) = 1 /\ wire[w][1].type = "error"
        /\ sessions # {}
        /\ DOMAIN session_connections # {}

\* a turn's run_async stream is open: the task awaits the next event, or is
\* sending the wire message of the event it has just received
InFlight(w) ==
    \/ pc[w] \in {"run_async", "stalled"}
    \/ pc[w] = "send" /\ sending[w].msg.type = "agent_response"

\* the place of a wire message within its turn
Rank(m) ==
    CASE m.type = "agent_thinking" -> 0
      [] m.type = "agent_response" -> m.seq
      [] m.type = "message" -> MaxEvents + 1
      [] OTHER -> 0

\* the wire messages of one turn reach a transport in the order of the turn
Ordered(log) ==
    \A i, j \in 1 .. Len(log) :
        (i < j /\ log[i].turn # Unset /\ log[i].turn = log[j].turn)
        => Rank(log[i]) < Rank(log[j])

\* no message of another turn of the session between two messages of a turn
Unmerged(log) ==
    \A i, j, k \in 1 .. Len(log) :
        ( /\ i < k /\ k < j
          /\ log[i].turn # Unset /\ log[i].turn = log[j].turn
          /\ log[k].turn # Unset /\ log[k].session_id = log[i].session_id )
        => log[k].turn = log[i].turn

\* C5: within one session the wire messages of a turn are delivered in the
\* order of the turn's events, not reordered and not merged with the messages
\* of another turn.
C5_OrderedUnmerged ==
    \A w \in WebSockets : Ordered(wire[w]) /\ Unmerged(wire[w])

\* C6: at most one turn is in flight per session id: no two run_async streams
\* are open for the same session id at once.
C6_OneTurnPerSession ==
    \A w1, w2 \in WebSockets :
        (w1 # w2 /\ InFlight(w1) /\ InFlight(w2)) => pm_session[w1] # pm_session[w2]

C8_OneSessionPerMissingId ==
    \A w1, w2 \in WebSockets :
        ( /\ w1 # w2
          /\ user_id[w1] = user_id[w2] /\ session_id[w1] = session_id[w2]
          /\ actual_session_id[w1] \notin {Unset, session_id[w1]}
          /\ actual_session_id[w2] \notin {Unset, session_id[w2]} )
        => actual_session_id[w1] = actual_session_id[w2]

\* C11: a token is valid iff it is in the table and the time is before its
\* expiry: validate_resumption_token on a token that create_resumption_token
\* stored, before its expiry and before any invalidation, returns valid with
\* the session_id and user_id of its row.
C11_StoredTokenValidates ==
    \A r \in tokens :
        TokenValid(tokens, r.token, now) =>
            LET validation_result == validate_resumption_token(tokens, r.token, now) IN
            /\ validation_result.valid
            /\ validation_result.session_id = r.session_id
            /\ validation_result.user_id = r.user_id

\* C12: validate_resumption_token on a token whose expiry has passed fails with
\* reason "expired" and deletes the row, so that the next validation fails
\* with reason "not found".
C12_ExpiredTokenCleanedUp ==
    \A r \in tokens :
        ~TokenValid(tokens, r.token, now) =>
            LET validation_result == validate_resumption_token(tokens, r.token, now) IN
            /\ ~validation_result.valid
            /\ validation_result.reason = "expired"
            /\ validate_resumption_token(validation_result.tokens, r.token, now).reason
                  = "not found"

\* C13: on every WebSocket connect whose session was resolved or created, the
\* first wire message on the transport is session_info for that session, and
\* it is on the wire before the handler reads any input from the transport.
C13_SessionInfoFirst ==
    \A w \in WebSockets :
        /\ wire[w] # <<>> =>
              /\ wire[w][1].type = "session_info"
              /\ wire[w][1].session_id = actual_session_id[w]
        /\ pc[w] \notin {"start", "get_session", "create_session", "accept"} =>
              wire[w] # <<>>

\* C13's case: a handler has read a user message, and what its transport got
\* before the first message of the turn is session_info.
C13_Witness ==
    \E w \in WebSockets :
        /\ turn[w] # Unset
        /\ Len(wire[w]) >= 2
        /\ wire[w][1].type = "session_info"
        /\ wire[w][2].type = "agent_thinking"

\* C14: every WebSocket connection opened with a valid resume_token has
\* received, by the time its connect is over (the handler reads input, or has
\* turned the client away), session_info and after it session_history.
C14_ResumedGetsHistory ==
    \A w \in WebSockets : \A g \in redeemed :
        (g.by = w /\ pc[w] \in {"receive", "rejected"}) =>
            \E i, j \in 1 .. Len(wire[w]) :
                /\ i < j
                /\ wire[w][i].type = "session_info"
                /\ wire[w][j].type = "session_history"

\* C15: when the agent runtime raises during a turn, the exception is caught
\* and the transport bound to the session is sent a wire message of type
\* error; what was on the wire before stays there.
C15_RuntimeErrorReported ==
    [][\A w \in WebSockets :
          run_async_raises(w) =>
             LET target == send_lookup(CM, actual_session_id[w]) IN
             (target # NoSend /\ open[target.websocket]) =>
                /\ Len(wire'[target.websocket]) = Len(wire[target.websocket]) + 1
                /\ SubSeq(wire'[target.websocket], 1, Len(wire[target.websocket]))
                      = wire[target.websocket]
                /\ wire'[target.websocket][Len(wire'[target.websocket])].type = "error"
                /\ pc'[w] # "closed"]_vars

\* C16: every dispatched turn ends: the handler whose turn is in the agent
\* runtime gets back to reading the next user message, by the runtime
\* completing or by a timeout that abandons the turn.
C16_TurnEnds ==
    \A w \in WebSockets : (pc[w] = "run_async") ~> (pc[w] = "receive")

\* C17: no user input is lost: every non-empty text message a handler
\* receives, whatever its streaming_mode, is dispatched to process_message.
C17_InputDispatched ==
    [][\A w \in WebSockets : ws_receive(w) => pc'[w] = "pm_get_session"]_vars

\* session id sid has no connection that send_message could write to
Unbound(sid) ==
    \/ sid \notin DOMAIN session_connections
    \/ session_connections[sid] \notin DOMAIN active_connections

\* a send_message call of w's task that returned at once: nothing written,
\* registry as before, no write pending, w's task at its next await
ReturnedQuietly(w, after) ==
    /\ wire' = wire
    /\ UNCHANGED registry_vars
    /\ sending' = sending
    /\ pc'[w] = after

\* C18: send_message(S, m) for a session id S with no bound connection
\* delivers nothing, raises nothing, and leaves active_connections,
\* session_connections and table active_connections unchanged.
C18_SendUnboundNoEffect ==
    [][\A w \in WebSockets :
          /\ (run_async_event(w) /\ Unbound(pm_session[w]))
                => ReturnedQuietly(w, "run_async")
          /\ (run_async_end(w) /\ Unbound(actual_session_id[w]))
                => ReturnedQuietly(w, "receive")
          /\ ( /\ pm_get_session(w)
               /\ get_session(sessions, user_id[w], actual_session_id[w])
               /\ Unbound(actual_session_id[w]) )
                => ReturnedQuietly(w, "run_async")]_vars

\* C18's case: a handler whose own transport is open has sent all the events
\* of its turn to a session that had lost its binding, and no transport got
\* any of them.
C18_Witness ==
    \E w \in WebSockets :
        /\ pc[w] = "run_async" /\ seq[w] = MaxEvents /\ open[w]
        /\ Unbound(pm_session[w])
        /\ \A v \in WebSockets : \A i \in 1 .. Len(wire[v]) :
              ~(wire[v][i].type = "agent_response" /\ wire[v][i].turn = turn[w])

\* C19: when the transport write inside send_message(S, m) fails, the failure
\* is not propagated (the caller goes on), the connection that was written to
\* is gone from active_connections, and S is bound to nothing, so that later
\* sends to S deliver nothing until a connect binds S again.
C19_SendFailureUnbinds ==
    [][\A w \in WebSockets :
          (send_message_done(w) /\ ~open[sending[w].websocket]) =>
             /\ sending[w].connection_id \notin DOMAIN active_connections'
             /\ sending[w].session_id \notin DOMAIN session_connections'
             /\ \A r \in db_active_connections' :
                   r.session_id # sending[w].session_id
             /\ pc'[w] = sending[w].after]_vars

\* C19's case: a handler in the middle of its turn whose connection a failed
\* write has removed from the registry.
C19_Witness ==
    \E w \in WebSockets :
        /\ pc[w] = "run_async" /\ ~open[w]
        /\ connection_id[w] # Unset
        /\ connection_id[w] \notin DOMAIN active_connections
        /\ Unbound(pm_session[w])

\* C20: connect, disconnect and send_message are atomic with respect to each
\* other per session id: a failed write on a superseded connection removes
\* that connection only. As long as no handler of the session has ended, the
\* session stays bound to its newest connection while that transport is open.
C20_FailedSendKeepsNewBinding ==
    \A w2 \in WebSockets :
        ( /\ Live(w2) /\ open[w2]
          /\ \A w1 \in WebSockets \ {w2} :
                (connection_id[w1] # Unset
                   /\ actual_session_id[w1] = actual_session_id[w2])
                => (connection_id[w1] < connection_id[w2] /\ pc[w1] # "closed") )
        => /\ actual_session_id[w2] \in DOMAIN session_connections
           /\ session_connections[actual_session_id[w2]] = connection_id[w2]

\* every wire message on a transport is addressed to the session id the
\* transport's connection was bound to by connect
AddressedToBoundSession ==
    \A v \in WebSockets : \A i \in 1 .. Len(wire[v]) :
        wire[v][i].session_id = actual_session_id[v]

\* the task of w unbinds in this step, for session id sid: its finally, or the
\* cleanup of a write of w that failed
Unbinds(w, sid) ==
    \/ ws_finally(w) /\ actual_session_id[w] = sid
    \/ send_message_done(w) /\ ~open[sending[w].websocket] /\ sending[w].session_id = sid

\* C21: no leak across session boundaries: a wire message addressed to session
\* id S is written only to a transport whose connection connect bound to S,
\* and a step that removes a connection or a binding is the disconnect of a
\* task for that same session id: nothing that happens in session S removes
\* the connection or the binding of a transport bound to another session id.
C21_NoCrossSessionLeak ==
    [][/\ AddressedToBoundSession'
       /\ \A c \in DOMAIN active_connections :
             c \notin DOMAIN active_connections' =>
                \E w \in WebSockets :
                    Unbinds(w, actual_session_id[active_connections[c]])
       /\ \A sid \in DOMAIN session_connections :
             sid \notin DOMAIN session_connections' =>
                \E w \in WebSockets : Unbinds(w, sid)]_vars

\* C21's case: two transports bound to different session ids; one has had a
\* turn and has been disconnected, the other is still bound and has received
\* nothing but its session_info.
C21_Witness ==
    \E w1, w2 \in WebSockets :
        /\ pc[w1] = "closed" /\ Live(w2)
        /\ actual_session_id[w1] # actual_session_id[w2]
        /\ turn[w1] # Unset /\ Len(wire[w1]) >= 2
        /\ actual_session_id[w2] \in DOMAIN session_connections
        /\ session_connections[actual_session_id[w2]] = connection_id[w2]
        /\ Len(wire[w2]) = 1

\* the turn w's task received last ended with the reply of a failed turn
FailedTurn(w) ==
    /\ turn[w] # Unset
    /\ \E v \in WebSockets : \E i \in 1 .. Len(wire[v]) :
          wire[v][i].turn = turn[w] /\ wire[v][i].content = ErrorReply

\* C22: a failed turn does not block a retry: when the agent runtime raises,
\* process_message ends the turn with the registry as it was and the handler
\* back in its receive loop, and the next user message the handler receives
\* is dispatched as a new turn.
C22_FailedTurnAllowsRetry ==
    [][\A w \in WebSockets :
          /\ run_async_raises(w) =>
                /\ UNCHANGED registry_vars
                /\ \/ pc'[w] = "receive"
                   \/ pc'[w] = "send" /\ sending'[w].after = "receive"
          /\ (ws_receive(w) /\ FailedTurn(w)) =>
                /\ pc'[w] = "pm_get_session"
                /\ turn'[w] > turn[w]]_vars

\* C22's case: the only connected handler had its first turn fail, has
\* received the next message, and that turn is in the agent runtime.
C22_Witness ==
    \E w \in WebSockets :
        /\ \A v \in WebSockets \ {w} : pc[v] = "start"
        /\ pc[w] = "run_async" /\ turn[w] = 2
        /\ \E i \in 1 .. Len(wire[w]) :
              wire[w][i].turn = 1 /\ wire[w][i].content = ErrorReply
        /\ actual_session_id[w] \in DOMAIN session_connections
        /\ session_connections[actual_session_id[w]] = connection_id[w]

\* the text of a part carries the transfer marker
TransferText(part) ==
    /\ part.text # None
    /\ \/ contains("transferring to", lower(part.text))
       \/ contains("transfer to", lower(part.text))

\* the kind the fixed precedence gives an event when every rule looks at all
\* the parts of the event: audio, then agent_transfer, then tool_call, then
\* tool_response, then agent_response, then no message
Precedence(event) ==
    LET some(P(_)) == \E i \in DOMAIN event.parts : P(event.parts[i])
        audio(part) == part.inline_data # None /\ startswith_audio(part.inline_data)
        call(part) == part.function_call # None
        response(part) == part.function_response # None
        free_text(part) == part.text # None /\ part.text # ""
    IN  IF some(audio) THEN "audio"
        ELSE IF some(TransferText) THEN "agent_transfer"
        ELSE IF some(call) THEN "tool_call"
        ELSE IF some(response) THEN "tool_response"
        ELSE IF some(free_text) THEN "agent_response"
        ELSE None

\* the wire message the step sent for the event on behalf of w, if it sent one
Emitted(w) ==
    IF sending'[w] # NoSend /\ sending[w] = NoSend
    THEN sending'[w].msg.type
    ELSE None

\* C23: every event of a turn is emitted as at most one wire message, whose
\* kind is the first of audio, agent_transfer, tool_call, tool_response,
\* agent_response that some part of the event matches (an event with a
\* tool-call part and a transfer-marker text is an agent_transfer), and as no
\* message when no part matches any.
C23_EventKindByPrecedence ==
    [][\A w \in WebSockets :
          (pc[w] = "run_async" /\ seq'[w] = seq[w] + 1 /\ ~Unbound(pm_session[w])) =>
             \A event \in Events :
                 run_async_any_event(w, event) => Emitted(w) = Precedence(event)]_vars

\* final_response holds no text of an event: only tool-call markers
NoTextProduced(response) ==
    \A i \in DOMAIN response :
        \/ response[i] \in Whitespace
        \/ \E name \in Tools : response[i] = UsedTool(name)[2]

\* the final reply of a turn as stated: the summary when tools were used and
\* no text was produced, the fallback when nothing was collected, else the
\* collected fragments and markers
StatedReply(response, calls) ==
    IF NoTextProduced(response) /\ calls # <<>> THEN ToolSummary(calls)
    ELSE IF strip(response) = <<>> THEN Fallback
    ELSE strip(response)

\* C24: the final reply of a turn is the concatenation of the text fragments
\* and tool-call markers collected from its events; it is the tool-usage
\* summary 'I used N tool(s)...' when tools were used and no text was
\* produced, and the fixed fallback when nothing was collected and no tool
\* was used.
C24_FinalReply ==
    [][\A w \in WebSockets :
          (/\ run_async_end(w)
           /\ pm_session[w] = actual_session_id[w]
           /\ ~Unbound(actual_session_id[w])) =>
             sending'[w].msg.content =
                 StatedReply(final_response[w], function_calls_made[w])]_vars

\* C25: when the session lookup of get_or_create_session fails with a storage
\* error, the error is surfaced and the not-found branch is not taken: no
\* create_session call follows the failed lookup.
C25_LookupErrorNotNotFound ==
    [][\A w \in WebSockets :
          get_session_raises(w) =>
             pc'[w] \notin {"create_session", "pm_create_session"}]_vars

\* a write to w's transport failed while w's task is in the event loop of a
\* turn: the cleanup of send_message has removed w's connection
UnboundMidTurn(w) ==
    /\ pc[w] = "run_async"
    /\ ~open[w]
    /\ connection_id[w] # Unset
    /\ connection_id[w] \notin DOMAIN active_connections

\* C26: once a send of a turn has failed, the connection is unbound and the
\* turn is abandoned: process_message takes no further event from the agent
\* runtime.
C26_FailedSendAbandonsTurn ==
    [][\A w \in WebSockets : UnboundMidTurn(w) => ~run_async_event(w)]_vars

\* C27: every wire message of a turn that was received on transport w is
\* written to w and to no other transport, also when another transport binds
\* the session while the turn runs.
C27_TurnRepliesOnOwnTransport ==
    \A w \in WebSockets : \A v \in WebSockets \ {w} :
        \A i \in DOMAIN wire[v] :
            turn[w] # Unset => wire[v][i].turn # turn[w]

\* C28: the session a turn of process_message runs in is the session the
\* connection is bound to, and the turn creates no session, also when
\* delete_session has removed the session after the connection was bound.
C28_TurnRunsInBoundSession ==
    \A w \in WebSockets :
        pm_session[w] # Unset =>
            /\ pm_session[w] = actual_session_id[w]
            /\ pc[w] # "pm_create_session"

\* the session of w's handler is bound to w's connection; a connection id is
\* bound once, by connect, so a connection bound now has been bound since
Bound(w) ==
    /\ connection_id[w] # Unset
    /\ connection_id[w] \in DOMAIN active_connections
    /\ actual_session_id[w] \in DOMAIN session_connections
    /\ session_connections[actual_session_id[w]] = connection_id[w]

\* the handler of w is back at receive() after the turn turn[w]
TurnDone(w) == pc[w] = "receive" /\ turn[w] # Unset

\* the messages of turn t in a log: agent_thinking first, one final message
\* last, event messages between them
ThinkingEventsReply(log, t) ==
    LET of_turn(m) == m.turn = t
        sent == SelectSeq(log, of_turn)
    IN  /\ Len(sent) >= 2
        /\ sent[1].type = "agent_thinking"
        /\ sent[Len(sent)].type = "message"
        /\ \A i \in 2 .. Len(sent) - 1 :
              sent[i].type \notin {"agent_thinking", "message"}

\* C29: for a user message processed in bidi mode while the connection stays
\* bound, the messages sent for the turn are one agent_thinking, then the
\* messages of the events, then exactly one final message of type message.
C29_ThinkingEventsReply ==
    \A w \in WebSockets :
        (TurnDone(w) /\ Bound(w) /\ streaming_mode[w] = "bidi")
            => ThinkingEventsReply(wire[w], turn[w])

\* C30: every connection id stored in session_connections is a key of
\* active_connections: no session id is bound to a connection whose transport
\* has been removed from the registry.
C30_BoundConnectionsAreActive ==
    \A sid \in DOMAIN session_connections :
        session_connections[sid] \in DOMAIN active_connections

\* a handler has ended and disconnected its connection while the session of
\* another handler is bound
C30_Witness ==
    \E w1 \in WebSockets : \E w2 \in WebSockets \ {w1} :
        /\ pc[w1] = "closed"
        /\ connection_id[w1] # Unset
        /\ connection_id[w1] \notin DOMAIN active_connections
        /\ Bound(w2)

============================================================================
